---- MODULE Spec2Model ----
(***************************************************************************)
(* Three agents of socs.                                                   *)
(*                                                                         *)
(* The SupRsync agent (agents/suprsync/suprsync.py): the polling loop      *)
(* SupRsync.run, its stopper SupRsync._stop, and the record store the loop *)
(* works on.  Every engine instance is one SupRsync object whose run()     *)
(* executes in a worker thread while _stop() is called from another one.   *)
(*                                                                         *)
(* socs.db.suprsync (SupRsyncFilesManager, SupRsyncFileHandler) is not     *)
(* among the sources; get_next_file, handle_file and the transaction of    *)
(* Session.begin() are modelled from sections 3, 4 and 5 of the            *)
(* specification.  All records belong to the one archive the engines       *)
(* are configured for.                                                     *)
(*                                                                         *)
(* The HWP PCU agent (socs/agents/hwp_pcu/agent.py) and the pysmurf        *)
(* monitor (agents/pysmurf_monitor/pysmurf_monitor.py) follow further      *)
(* down, each with a specification of its own.                             *)
(***************************************************************************)
EXTENDS Integers, FiniteSets, Sequences, TLC

(* ------------------------------ bounds -------------------------------- *)
NumRecords == 2
MaxDeleteAfter == 4
MaxCeiling == 2
MaxTimeoutWait == 4
MaxActions == 3
MaxDatagrams == 2

(* --------------------------- program values --------------------------- *)
\* time.sleep(3), the fixed sleep of an iteration
SleepInterval == 3
\* Python's None (an option that was not given); no modelled number equals it
None == -1000
\* without a ceiling the attempt counter is unbounded; it is followed up to here
AttemptCap == MaxCeiling + 1

\* the engine instances that can exist: two SupRsync agents on one store
Engines == {1, 2}
Records == 1..NumRecords

\* a row that is not in the table
NoRow == [present |-> FALSE, copied |-> 0, failed_copy_attempts |-> 0,
          removed |-> FALSE, age |-> 0]

VARIABLES
    files,              \* the table: one row per record id; a row's age
                        \* field is now - timestamp
    max_copy_attempts,  \* args.max_copy_attempts (None if not given)
    delete_after,       \* args.delete_after (None if not given)
    timeout_wait,       \* args.timeout_wait
    active,             \* the engine instances that exist
    running,            \* self.running of each instance
    status,             \* status of the run session of each instance
    pc,                 \* position of run() of each instance
    spc,                \* position of _stop() of each instance
    file,               \* the local `file` of run(): a record id, 0 for None
    dirty,              \* the row as changed inside the open transaction
    txn,                \* the instance holding the store's transaction, 0 if none
    timer,              \* seconds left of the time.sleep() in progress
    elapsed,            \* seconds since the last TimeoutExpired (saturating)
    stop_seen,          \* the stop request of the current run, see Stop
    timed_out,          \* handle_file raised TimeoutExpired in this iteration
    before              \* the committed row of `file` when it was selected

\* the HWP PCU agent
VARIABLES
    action_queue,       \* self.action_queue: the queued actions, oldest first
    num_actions,        \* the actions created so far (an action is its number)
    deferred,           \* action.deferred: none, pending, or how it fired
    fired,              \* how often callback or errback was called on it
    applied,            \* a relay was switched for the action
    enqueued_at,        \* where main was when the action was enqueued
    action,             \* the local `action` of _process_actions, 0 if none
    main_pc,            \* position of main()
    main_status,        \* status of the session of main
    pass_done           \* actions handled in this call of _process_actions

\* the relays of the PCU and the last call of process_action
VARIABLES
    relays,             \* the relays of the PCU: TRUE for a relay that is on
    relays_before,      \* the relays when process_action was called
    command,            \* action.command of that call, "none" before any
    calls,              \* the relay_off / relay_on calls it made, in order
    returned            \* it returned (no call raised)

\* the pysmurf monitor
VARIABLES
    datagrams           \* per received datagram: its type, what
                        \* datagramReceived did, its payload, the dict that
                        \* was submitted, the outcome of the insert, and how
                        \* often each of the two reports was made

vars == <<files, max_copy_attempts, delete_after, timeout_wait, active,
          running, status, pc, spc, file, dirty, txn, timer, elapsed,
          stop_seen, timed_out, before,
          action_queue, num_actions, deferred, fired, applied, enqueued_at,
          action, main_pc, main_status, pass_done, datagrams,
          relays, relays_before, command, calls, returned>>

config == <<max_copy_attempts, delete_after, timeout_wait, active>>
ghosts == <<elapsed, stop_seen, timed_out, before>>
board == <<relays, relays_before, command, calls, returned>>
pcu == <<action_queue, num_actions, deferred, fired, applied, enqueued_at,
        action, main_pc, main_status, pass_done, board>>
monitor == <<datagrams>>
suprsync == <<files, config, running, status, pc, spc, file, dirty, txn,
              timer, ghosts>>

Min(a, b) == IF a < b THEN a ELSE b
Max(a, b) == IF a > b THEN a ELSE b

(* ------------------------- the record store --------------------------- *)
\* SupRsyncFilesManager.get_next_file, rule 1: rows awaiting a copy
CopyCandidates(mca) ==
    {r \in Records : /\ files[r].present
                     /\ files[r].copied # 1
                     /\ (mca = None \/ files[r].failed_copy_attempts < mca)}

\* SupRsyncFilesManager.get_next_file, rule 2: rows whose local file may go
DeleteCandidates(da) ==
    IF da = None THEN {}
    ELSE {r \in Records : /\ files[r].present
                          /\ files[r].copied = 1
                          /\ ~files[r].removed
                          /\ files[r].age > da}

\* ORDER BY timestamp ASC, first row (ties broken by id)
Oldest(S) ==
    CHOOSE r \in S : \A q \in S :
        \/ files[r].age > files[q].age
        \/ (files[r].age = files[q].age /\ r <= q)

\* SupRsyncFilesManager.get_next_file: a record id, 0 for None
get_next_file(da, mca) ==
    IF CopyCandidates(mca) # {} THEN Oldest(CopyCandidates(mca))
    ELSE IF DeleteCandidates(da) # {} THEN Oldest(DeleteCandidates(da))
    ELSE 0

\* SupRsyncFileHandler.handle_file: the rows it can leave behind, each with
\* whether subprocess.TimeoutExpired was raised
handle_file(row) ==
    IF row.copied # 1
    THEN {[row |-> [row EXCEPT !.copied = 1], timeout |-> FALSE]}
         \cup
         (IF row.failed_copy_attempts < AttemptCap
          THEN {[row |-> [row EXCEPT !.failed_copy_attempts = @ + 1], timeout |-> t] :
                    t \in BOOLEAN}
          ELSE {})
    ELSE {[row |-> [row EXCEPT !.removed = TRUE], timeout |-> FALSE],
          [row |-> row, timeout |-> FALSE]}

\* (variant: an option that was not given counts as a window of 0 seconds)
SelectDeleteAfter_default == IF delete_after = None THEN 0 ELSE delete_after

(* --------------------- what run() passes and tests -------------------- *)
\* (variant: the retention window is not handed on, every age passes)
SelectDeleteAfter_zero == IF delete_after = None THEN None ELSE 0
\* delete_after=self.delete_after
SelectDeleteAfter == delete_after

\* (variant: the ceiling is not handed on)
SelectMaxCopyAttempts_none == None
\* max_copy_attempts=self.max_copy_attempts
SelectMaxCopyAttempts == max_copy_attempts

\* (variant: the loop does not test the flag)
LoopCondition_always(i) == TRUE
\* while self.running:
LoopCondition(i) == running[i]

\* (variant: no cooldown after a timeout)
TimeoutSleep_none == Min(0, timeout_wait)
\* time.sleep(self.timeout_wait)
TimeoutSleep == timeout_wait

\* (variant: the with block ends before handle_file is called)
TxnAfterSelect_released(i) == 0
\* the transaction is still the one of the with block when handle_file runs
TxnAfterSelect(i) == txn

\* (variant: TimeoutExpired is caught outside the with block, which rolls back)
CommittedRow_rollback(i) == IF timed_out[i] THEN files[file[i]] ELSE dirty[i]
\* leaving the with block without an exception commits the changed row
CommittedRow(i) == dirty[i]

\* (variant: a selected record is not handled, the selection is repeated)
NextAfterSelect_reselect(f) == IF f = 0 THEN "L100" ELSE "L88"
\* if file is not None: handle_file, else straight to the fixed sleep
NextAfterSelect(f) == IF f = 0 THEN "L100" ELSE "L94"

\* (variant: the stopper leaves the flag set)
StopRunningValue_true == TRUE
\* self.running = False
StopRunningValue == FALSE

IterStates == {"L87", "L88", "L94", "L99", "L100"}
Finished == {"idle", "done", "crashed"}

(* ------------------- the other two agents at start -------------------- *)
\* the actions send_command can create
Actions == 1..MaxActions

PcuInit ==
    /\ action_queue = <<>>
    /\ num_actions = 0
    /\ deferred = [a \in Actions |-> "none"]
    /\ fired = [a \in Actions |-> 0]
    /\ applied = [a \in Actions |-> FALSE]
    /\ enqueued_at = [a \in Actions |-> "none"]
    /\ action = 0
    /\ main_pc = "idle"
    /\ main_status = "idle"
    /\ pass_done = {}

\* the datagrams the monitor can receive
Datagrams == 1..MaxDatagrams
\* the empty dict
NoDict == [k \in {} |-> 0]
\* a datagram that has not arrived
NoDatagram == [type |-> "none", recv |-> "none", payload |-> NoDict,
               d |-> NoDict, insert |-> "none", added |-> 0, errors |-> 0]

MonitorInit == datagrams = [m \in Datagrams |-> NoDatagram]

(* ------------------------------- Init --------------------------------- *)
\* the relay numbers of the PCU
Board == 0..7
\* the choices of the command parameter of send_command
Commands == {"off", "on_1", "on_2", "stop"}

\* no command has been processed
NoCall ==
    /\ relays_before = relays
    /\ command = "none"
    /\ calls = <<>>
    /\ returned = FALSE

BoardInit == relays = [ch \in Board |-> FALSE] /\ NoCall

SupRsyncInit(engs, mcas, das, tws) ==
    /\ files = [r \in Records |-> NoRow]
    /\ max_copy_attempts \in mcas
    /\ delete_after \in das
    /\ timeout_wait \in tws
    /\ active = engs
    /\ running = [i \in Engines |-> FALSE]
    /\ status = [i \in Engines |-> "idle"]
    /\ pc = [i \in Engines |-> "idle"]
    /\ spc = [i \in Engines |-> "idle"]
    /\ file = [i \in Engines |-> 0]
    /\ dirty = [i \in Engines |-> NoRow]
    /\ txn = 0
    /\ timer = [i \in Engines |-> 0]
    /\ elapsed = [i \in Engines |-> timeout_wait]
    /\ stop_seen = [i \in Engines |-> "none"]
    /\ timed_out = [i \in Engines |-> FALSE]
    /\ before = [i \in Engines |-> NoRow]

InitWith(engs, mcas, das, tws) ==
    /\ SupRsyncInit(engs, mcas, das, tws)
    /\ PcuInit
    /\ BoardInit
    /\ MonitorInit

\* one engine, every configuration the parser accepts (within the bounds)
Init ==
    InitWith({1}, {None} \cup (-1..MaxCeiling), {None, 0, MaxDeleteAfter},
             {MaxTimeoutWait})

(* ---------------------- the ingestion collaborator -------------------- *)
\* a new row: copied = 0, failed_copy_attempts = 0, not removed
AddFile(r) ==
    /\ ~files[r].present
    /\ \A q \in Records : q < r => files[q].present
    /\ files' = [files EXCEPT ![r] = [present |-> TRUE, copied |-> 0,
                                      failed_copy_attempts |-> 0,
                                      removed |-> FALSE, age |-> 0]]
    /\ UNCHANGED <<config, pcu, monitor, running, status, pc, spc, file, dirty, txn,
                   timer, ghosts>>

(* ------------------------------- time --------------------------------- *)
\* a row's age is followed until it exceeds the retention window; from there
\* on the comparison against the window is decided, and rows keep their order
\* (without a window: until it is older than a row inserted now)
AgeCap == IF delete_after = None THEN 1 ELSE delete_after + 1

Tick ==
    /\ files' = [r \in Records |->
                    IF files[r].present
                    THEN [files[r] EXCEPT !.age = Min(@ + 1, AgeCap)]
                    ELSE files[r]]
    /\ dirty' = [i \in Engines |->
                    IF file[i] # 0
                    THEN [dirty[i] EXCEPT !.age = Min(@ + 1, AgeCap)]
                    ELSE dirty[i]]
    /\ timer' = [i \in Engines |-> Max(timer[i] - 1, 0)]
    /\ elapsed' = [i \in Engines |-> Min(elapsed[i] + 1, timeout_wait)]
    /\ UNCHANGED <<config, pcu, monitor, running, status, pc, spc, file, txn, stop_seen,
                   timed_out, before>>

(* ----------------------------- SupRsync.run --------------------------- *)
\* the agent starts the registered process: run() begins in its thread
StartRun(i) ==
    /\ i \in active
    /\ pc[i] \in Finished
    /\ pc' = [pc EXCEPT ![i] = "L75"]
    /\ status' = [status EXCEPT ![i] = "starting"]
    /\ stop_seen' = [stop_seen EXCEPT ![i] = "none"]
    /\ UNCHANGED <<files, config, pcu, monitor, running, spc, file, dirty, txn, timer,
                   elapsed, timed_out, before>>

\* srfm = SupRsyncFilesManager(self.db_path, create_all=True)
RunCreateManager(i) ==
    /\ pc[i] = "L75"
    /\ pc' = [pc EXCEPT ![i] = "L77"]
    /\ UNCHANGED <<files, config, pcu, monitor, running, status, spc, file, dirty, txn,
                   timer, ghosts>>

\* self.running = True
RunSetRunning(i) ==
    /\ pc[i] = "L77"
    /\ running' = [running EXCEPT ![i] = TRUE]
    /\ pc' = [pc EXCEPT ![i] = "L78"]
    /\ UNCHANGED <<files, config, pcu, monitor, status, spc, file, dirty, txn, timer,
                   ghosts>>

\* session.set_status('running'); handler = SupRsyncFileHandler(...)
RunSetStatus(i) ==
    /\ pc[i] = "L78"
    /\ status' = [status EXCEPT ![i] = "running"]
    /\ pc' = [pc EXCEPT ![i] = "L86"]
    /\ UNCHANGED <<files, config, pcu, monitor, running, spc, file, dirty, txn, timer,
                   ghosts>>

\* while self.running: one more iteration, or run() returns
RunLoopTest(i) ==
    /\ pc[i] = "L86"
    /\ IF LoopCondition(i)
       THEN /\ pc' = [pc EXCEPT ![i] = "L87"]
            /\ UNCHANGED status
       ELSE /\ pc' = [pc EXCEPT ![i] = "done"]
            /\ status' = [status EXCEPT ![i] = "done"]
    /\ timed_out' = [timed_out EXCEPT ![i] = FALSE]
    /\ UNCHANGED <<files, config, pcu, monitor, running, spc, file, dirty, txn, timer,
                   elapsed, stop_seen, before>>

\* with srfm.Session.begin() as session: the transaction is taken
RunBegin(i) ==
    /\ pc[i] = "L87"
    /\ txn = 0
    /\ txn' = i
    /\ pc' = [pc EXCEPT ![i] = "L88"]
    /\ UNCHANGED <<files, config, pcu, monitor, running, status, spc, file, dirty,
                   timer, ghosts>>

\* srfm.Session.begin() raises (store unavailable): nothing in run() catches it
RunBeginFails(i) ==
    /\ pc[i] = "L87"
    /\ pc' = [pc EXCEPT ![i] = "crashed"]
    /\ status' = [status EXCEPT ![i] = "done"]
    /\ UNCHANGED <<files, config, pcu, monitor, running, spc, file, dirty, txn, timer,
                   ghosts>>

\* file = srfm.get_next_file(...); if file is not None: ...
RunGetNextFile(i) ==
    /\ pc[i] = "L88"
    /\ LET f == get_next_file(SelectDeleteAfter, SelectMaxCopyAttempts) IN
       /\ file' = [file EXCEPT ![i] = f]
       /\ dirty' = [dirty EXCEPT ![i] = IF f = 0 THEN NoRow ELSE files[f]]
       /\ before' = [before EXCEPT ![i] = IF f = 0 THEN NoRow ELSE files[f]]
       /\ pc' = [pc EXCEPT ![i] = NextAfterSelect(f)]
       /\ IF f = 0
          THEN timer' = [timer EXCEPT ![i] = SleepInterval]
          ELSE UNCHANGED timer
    /\ txn' = TxnAfterSelect(i)
    /\ UNCHANGED <<files, config, pcu, monitor, running, status, spc, elapsed,
                   stop_seen, timed_out>>

\* get_next_file raises (store unavailable): the with block rolls back and
\* the exception leaves run()
RunGetNextFileFails(i) ==
    /\ pc[i] = "L88"
    /\ txn' = IF txn = i THEN 0 ELSE txn
    /\ pc' = [pc EXCEPT ![i] = "crashed"]
    /\ status' = [status EXCEPT ![i] = "done"]
    /\ stop_seen' = [stop_seen EXCEPT ![i] =
                        IF @ = "inflight" THEN "completed" ELSE @]
    /\ UNCHANGED <<files, config, pcu, monitor, running, spc, file, dirty, timer,
                   elapsed, timed_out, before>>

\* handler.handle_file(file, session), and the except clause of a timeout
RunHandleFile(i) ==
    /\ pc[i] = "L94"
    /\ \E out \in handle_file(dirty[i]) :
        /\ dirty' = [dirty EXCEPT ![i] = out.row]
        /\ timed_out' = [timed_out EXCEPT ![i] = out.timeout]
        /\ IF out.timeout
           THEN /\ pc' = [pc EXCEPT ![i] = "L99"]
                /\ timer' = [timer EXCEPT ![i] = TimeoutSleep]
                /\ elapsed' = [elapsed EXCEPT ![i] = 0]
           ELSE /\ pc' = [pc EXCEPT ![i] = "L100"]
                /\ timer' = [timer EXCEPT ![i] = SleepInterval]
                /\ UNCHANGED elapsed
    /\ UNCHANGED <<files, config, pcu, monitor, running, status, spc, file, txn,
                   stop_seen, before>>

\* time.sleep(self.timeout_wait) returns; time.sleep(3) begins
RunTimeoutSleepDone(i) ==
    /\ pc[i] = "L99"
    /\ timer[i] = 0
    /\ pc' = [pc EXCEPT ![i] = "L100"]
    /\ timer' = [timer EXCEPT ![i] = SleepInterval]
    /\ UNCHANGED <<files, config, pcu, monitor, running, status, spc, file, dirty, txn,
                   ghosts>>

\* time.sleep(3) returns and the with block ends: the transaction commits
RunSleepDone(i) ==
    /\ pc[i] = "L100"
    /\ timer[i] = 0
    /\ files' = IF file[i] = 0 THEN files
                ELSE [files EXCEPT ![file[i]] = CommittedRow(i)]
    /\ txn' = IF txn = i THEN 0 ELSE txn
    /\ file' = [file EXCEPT ![i] = 0]
    /\ dirty' = [dirty EXCEPT ![i] = NoRow]
    /\ before' = [before EXCEPT ![i] = NoRow]
    /\ pc' = [pc EXCEPT ![i] = "L86"]
    /\ stop_seen' = [stop_seen EXCEPT ![i] =
                        IF @ = "inflight" THEN "completed" ELSE @]
    /\ UNCHANGED <<config, pcu, monitor, running, status, spc, timer, elapsed,
                   timed_out>>

(* ---------------------------- SupRsync._stop -------------------------- *)
\* the agent calls the stopper of the started process: self.running = False
Stop(i) ==
    /\ i \in active
    /\ spc[i] = "idle"
    /\ pc[i] \notin Finished
    /\ running' = [running EXCEPT ![i] = StopRunningValue]
    /\ spc' = [spc EXCEPT ![i] = "L104"]
    /\ stop_seen' = [stop_seen EXCEPT ![i] =
                        IF @ # "none" THEN @
                        ELSE IF pc[i] \in IterStates THEN "inflight"
                        ELSE "requested"]
    /\ UNCHANGED <<files, config, pcu, monitor, status, pc, file, dirty, txn, timer,
                   elapsed, timed_out, before>>

\* session.set_status('stopping'); _stop returns
StopSetStatus(i) ==
    /\ spc[i] = "L104"
    /\ status' = [status EXCEPT ![i] = "stopping"]
    /\ spc' = [spc EXCEPT ![i] = "idle"]
    /\ UNCHANGED <<files, config, pcu, monitor, running, pc, file, dirty, txn, timer,
                   ghosts>>

(* ------------------------------ the system ---------------------------- *)
EngineStep(i) ==
    \/ RunCreateManager(i)
    \/ RunSetRunning(i)
    \/ RunSetStatus(i)
    \/ RunLoopTest(i)
    \/ RunBegin(i)
    \/ RunGetNextFile(i)
    \/ RunHandleFile(i)
    \/ RunTimeoutSleepDone(i)
    \/ RunSleepDone(i)

StopStep(i) == StopSetStatus(i)

Next ==
    \/ \E r \in Records : AddFile(r)
    \/ Tick
    \/ \E i \in Engines : StartRun(i)
    \/ \E i \in Engines : EngineStep(i)
    \/ \E i \in Engines : RunBeginFails(i)
    \/ \E i \in Engines : RunGetNextFileFails(i)
    \/ \E i \in Engines : Stop(i)
    \/ \E i \in Engines : StopStep(i)

Spec == Init /\ [][Next]_vars

\* two engines on the same store and archive, one configuration
InitTwo == InitWith({1, 2}, {1}, {0}, {1})

SpecTwo == InitTwo /\ [][Next]_vars

\* one engine, one configuration; threads keep being scheduled and time passes
InitLive == InitWith({1}, {1}, {0}, {1})

LiveSpec ==
    /\ InitLive
    /\ [][Next]_vars
    /\ WF_vars(Tick)
    /\ \A i \in Engines : WF_vars(EngineStep(i)) /\ WF_vars(StopStep(i))

(* ====================================================================== *)
(* The HWP PCU agent (socs/agents/hwp_pcu/agent.py): send_command puts    *)
(* actions on action_queue from the reactor thread; main runs in a worker *)
(* thread, cancels what it finds in the queue and then processes the      *)
(* queue once per pass of its loop; _stop_main asks it to leave the loop. *)
(* ====================================================================== *)
MainFinished == {"idle", "done", "crashed"}
\* main() from line 128 on, _process_actions included
MainLoop == {"L128", "L129", "L95", "L97", "L135", "L137"}
\* states of a Deferred that has fired
Resolved == {"result", "cancelled", "error"}

\* order of the session statuses
StatusRank(s) ==
    CASE s = "starting" -> 1
      [] s = "running" -> 2
      [] s = "stopping" -> 3
      [] OTHER -> 4

\* session.set_status(new): ocs is not part of the sources, and whether it
\* accepts a move back to an earlier status is left open: both outcomes
set_status(cur, new) ==
    IF StatusRank(new) < StatusRank(cur) THEN {cur, new} ELSE {new}

\* (variant: the start-up loop is skipped)
StartupQueueTest_skip(q) == Len(q) > MaxActions
\* while not self.action_queue.empty(), line 123
StartupQueueTest(q) == q # <<>>

\* (variant: the action is looked at but left in the queue)
QueueAfterGet_peek(q) == q
\* Queue.get() removes the item it returns
QueueAfterGet(q) == Tail(q)

\* (variant: the exception of process_action is not caught)
AfterActionError_raise == "crashed"
\* except Exception: ... errback; then the while test of line 95 again
AfterActionError == "L95"

\* (variant: the loop of main does not call _process_actions)
AfterPublish_skip == "L135"
\* self._process_actions(PCU), line 134: on to the while test of line 95
AfterPublish == "L95"

\* process_action(action, PCU): it returns after switching the relays, or a
\* relay call raises, before or after some relay was switched
process_action ==
    {[ok |-> TRUE, switched |-> TRUE],
     [ok |-> FALSE, switched |-> FALSE],
     [ok |-> FALSE, switched |-> TRUE]}

\* where main is when an action is enqueued: before the start-up loop found
\* the queue empty, between that and the main loop (line 127), or later
Phase ==
    IF main_pc \in MainFinished \cup {"L119", "L122", "L123"} THEN "startup"
    ELSE IF main_pc = "L127" THEN "window"
    ELSE "loop"

\* deferred.callback / deferred.errback: the first call decides the outcome
Fire(a, outcome) ==
    /\ deferred' = [deferred EXCEPT ![a] = IF fired[a] = 0 THEN outcome ELSE @]
    /\ fired' = [fired EXCEPT ![a] = Min(2, @ + 1)]

\* send_command, lines 89-91: a new action with a new Deferred is enqueued
send_command ==
    /\ num_actions < MaxActions
    /\ LET a == num_actions + 1 IN
       /\ num_actions' = a
       /\ action_queue' = Append(action_queue, a)
       /\ deferred' = [deferred EXCEPT ![a] = "pending"]
       /\ enqueued_at' = [enqueued_at EXCEPT ![a] = Phase]
    /\ UNCHANGED <<suprsync, monitor, board, fired, applied, action, main_pc,
                   main_status, pass_done>>

\* the agent starts the main process (at startup, or again after it ended)
StartMain ==
    /\ main_pc \in MainFinished
    /\ main_pc' = "L119"
    /\ main_status' = "starting"
    /\ enqueued_at' = [a \in Actions |->
                         IF \E k \in 1..Len(action_queue) : action_queue[k] = a
                         THEN "startup" ELSE enqueued_at[a]]
    /\ pass_done' = {}
    /\ UNCHANGED <<suprsync, monitor, board, action_queue, num_actions, deferred,
                   fired, applied, action>>

\* PCU = pcu.PCU(port=self.port)
MainConnect ==
    /\ main_pc = "L119"
    /\ main_pc' = "L122"
    /\ UNCHANGED <<suprsync, monitor, board, action_queue, num_actions, deferred,
                   fired, applied, enqueued_at, action, main_status,
                   pass_done>>

\* the serial port cannot be opened: main ends with the exception
MainConnectFails ==
    /\ main_pc = "L119"
    /\ main_pc' = "crashed"
    /\ main_status' = "done"
    /\ UNCHANGED <<suprsync, monitor, board, action_queue, num_actions, deferred,
                   fired, applied, enqueued_at, action, pass_done>>

\* session.set_status('running')
MainSetStatus ==
    /\ main_pc = "L122"
    /\ main_status' \in set_status(main_status, "running")
    /\ main_pc' = "L123"
    /\ UNCHANGED <<suprsync, monitor, board, action_queue, num_actions, deferred,
                   fired, applied, enqueued_at, action, pass_done>>

\* lines 123-125: an action found in the queue is taken and cancelled
MainCancel ==
    /\ main_pc = "L123"
    /\ StartupQueueTest(action_queue)
    /\ action_queue' = QueueAfterGet(action_queue)
    /\ Fire(Head(action_queue), "cancelled")
    /\ UNCHANGED <<suprsync, monitor, board, num_actions, applied, enqueued_at,
                   action, main_pc, main_status, pass_done>>

\* line 123: the queue is found empty
MainCancelDone ==
    /\ main_pc = "L123"
    /\ ~StartupQueueTest(action_queue)
    /\ main_pc' = "L127"
    /\ UNCHANGED <<suprsync, monitor, board, action_queue, num_actions, deferred,
                   fired, applied, enqueued_at, action, main_status,
                   pass_done>>

\* last_daq = 0
MainLastDaq ==
    /\ main_pc = "L127"
    /\ main_pc' = "L128"
    /\ UNCHANGED <<suprsync, monitor, board, action_queue, num_actions, deferred,
                   fired, applied, enqueued_at, action, main_status,
                   pass_done>>

\* while session.status in ['starting', 'running']:
MainLoopTest ==
    /\ main_pc = "L128"
    /\ main_pc' = IF main_status \in {"starting", "running"}
                  THEN "L129" ELSE "L137"
    /\ UNCHANGED <<suprsync, monitor, board, action_queue, num_actions, deferred,
                   fired, applied, enqueued_at, action, main_status,
                   pass_done>>

\* lines 129-134: the data are published when they are due, and
\* _process_actions is called
MainPublish ==
    /\ main_pc = "L129"
    /\ main_pc' = AfterPublish
    /\ pass_done' = {}
    /\ UNCHANGED <<suprsync, monitor, board, action_queue, num_actions, deferred,
                   fired, applied, enqueued_at, action, main_status>>

\* PCU.get_status() or the feed raises: nothing in main catches it
MainPublishFails ==
    /\ main_pc = "L129"
    /\ main_pc' = "crashed"
    /\ main_status' = "done"
    /\ UNCHANGED <<suprsync, monitor, board, action_queue, num_actions, deferred,
                   fired, applied, enqueued_at, action, pass_done>>

\* lines 95-96: while not empty: action = self.action_queue.get()
ProcessGet ==
    /\ main_pc = "L95"
    /\ action_queue # <<>>
    /\ action' = Head(action_queue)
    /\ action_queue' = QueueAfterGet(action_queue)
    /\ main_pc' = "L97"
    /\ UNCHANGED <<suprsync, monitor, board, num_actions, deferred, fired, applied,
                   enqueued_at, main_status, pass_done>>

\* line 95: the queue is empty, _process_actions returns
ProcessDone ==
    /\ main_pc = "L95"
    /\ action_queue = <<>>
    /\ main_pc' = "L135"
    /\ UNCHANGED <<suprsync, monitor, board, action_queue, num_actions, deferred,
                   fired, applied, enqueued_at, action, main_status,
                   pass_done>>

\* lines 97-103: process_action, then callback(res), or errback(e) when an
\* exception was raised
ProcessAction ==
    /\ main_pc = "L97"
    /\ \E o \in process_action :
        /\ applied' = [applied EXCEPT ![action] = @ \/ o.switched]
        /\ Fire(action, IF o.ok THEN "result" ELSE "error")
        /\ main_pc' = IF o.ok THEN "L95" ELSE AfterActionError
    /\ pass_done' = pass_done \cup {action}
    /\ action' = 0
    /\ UNCHANGED <<suprsync, monitor, board, action_queue, num_actions,
                   enqueued_at, main_status>>

\* time.sleep(0.1)
MainSleep ==
    /\ main_pc = "L135"
    /\ main_pc' = "L128"
    /\ UNCHANGED <<suprsync, monitor, board, action_queue, num_actions, deferred,
                   fired, applied, enqueued_at, action, main_status,
                   pass_done>>

\* PCU.close(); main returns and the agent closes the session
MainClose ==
    /\ main_pc = "L137"
    /\ main_pc' = "done"
    /\ main_status' = "done"
    /\ UNCHANGED <<suprsync, monitor, board, action_queue, num_actions, deferred,
                   fired, applied, enqueued_at, action, pass_done>>

\* _stop_main: session.set_status('stopping')
StopMain ==
    /\ main_pc \notin MainFinished
    /\ main_status # "stopping"
    /\ main_status' \in set_status(main_status, "stopping")
    /\ UNCHANGED <<suprsync, monitor, board, action_queue, num_actions, deferred,
                   fired, applied, enqueued_at, action, main_pc, pass_done>>

NextPCU ==
    \/ send_command
    \/ StartMain
    \/ MainConnect
    \/ MainConnectFails
    \/ MainSetStatus
    \/ MainCancel
    \/ MainCancelDone
    \/ MainLastDaq
    \/ MainLoopTest
    \/ MainPublish
    \/ MainPublishFails
    \/ ProcessGet
    \/ ProcessDone
    \/ ProcessAction
    \/ MainSleep
    \/ MainClose
    \/ StopMain

SpecPCU == InitLive /\ [][NextPCU]_vars

\* the steps of main that neither wait for the hardware nor can fail
MainStep ==
    \/ MainSetStatus
    \/ MainCancel
    \/ MainCancelDone
    \/ MainLastDaq
    \/ MainLoopTest
    \/ ProcessGet
    \/ ProcessDone
    \/ ProcessAction
    \/ MainSleep
    \/ MainClose

\* the thread of main keeps being scheduled; main is started again whenever
\* it has ended; the connection to the PCU and the publishing step do not
\* fail for ever
LiveSpecPCU ==
    /\ InitLive
    /\ [][NextPCU]_vars
    /\ WF_vars(MainStep)
    /\ WF_vars(StartMain)
    /\ SF_vars(MainConnect)
    /\ SF_vars(MainPublish)

(* ====================================================================== *)
(* The pysmurf monitor (agents/pysmurf_monitor/pysmurf_monitor.py):       *)
(* datagramReceived submits one insert for every file message it gets;    *)
(* the insert runs in the connection pool and its Deferred then runs the  *)
(* two functions chained to it.                                           *)
(* ====================================================================== *)
\* message types of the pysmurf publisher
MessageTypes == {"data_file", "session_log"}
\* keys a payload can carry, and the values they can have
PayloadKeys == {"path", "copied", "failed_copy_attempts"}
PayloadValues == {0, 1}
Payloads == UNION {[K -> PayloadValues] : K \in SUBSET PayloadKeys}

\* self.base_file_info, the two fields the sync engine reads (site,
\* instance_id and socs_version are constant strings)
base_file_info == [copied |-> 0, failed_copy_attempts |-> 0]

\* (variant: d = dict(base_file_info); d.update(payload))
update_reversed(d, other) ==
    [k \in DOMAIN d \cup DOMAIN other |->
        IF k \in DOMAIN d THEN d[k] ELSE other[k]]
\* dict.update: the keys of other are added, those present are overwritten
update(d, other) ==
    [k \in DOMAIN d \cup DOMAIN other |->
        IF k \in DOMAIN other THEN other[k] ELSE d[k]]

\* (variant: the errback logs and returns nothing)
ErrbackReturn_none(failure) == "value"
\* _add_file_errback: return failure
ErrbackReturn(failure) == failure

\* the functions the Deferred runs for an outcome: the errback added first
\* runs on a failure and its return value is what the callback added after
\* it gets; that callback runs unless it is handed a failure
AfterErrback(res) == IF res = "failure" THEN ErrbackReturn(res) ELSE res
ErrbackRuns(res) == res = "failure"
CallbackRuns(res) == AfterErrback(res) # "failure"

\* datagramReceived, lines 95-109
datagramReceived(m, type, payload) ==
    /\ datagrams[m].recv = "none"
    /\ \A k \in Datagrams : k < m => datagrams[k].recv # "none"
    /\ datagrams' = [datagrams EXCEPT ![m] =
         IF type \notin {"data_file"}
         THEN [@ EXCEPT !.type = type, !.recv = "ignored"]
         ELSE IF "path" \notin DOMAIN payload
         THEN [@ EXCEPT !.type = type, !.recv = "raised"]
         ELSE [@ EXCEPT !.type = type, !.recv = "submitted",
                        !.payload = payload,
                        !.d = update(payload, base_file_info),
                        !.insert = "pending"]]
    /\ UNCHANGED <<suprsync, pcu>>

\* the interaction of the connection pool ends and the Deferred fires
InsertEnds(m, res) ==
    /\ datagrams[m].insert = "pending"
    /\ datagrams' = [datagrams EXCEPT ![m] =
         [@ EXCEPT !.insert = res,
                   !.errors = IF ErrbackRuns(res) THEN @ + 1 ELSE @,
                   !.added = IF CallbackRuns(res) THEN @ + 1 ELSE @]]
    /\ UNCHANGED <<suprsync, pcu>>

NextMonitor ==
    \/ \E m \in Datagrams, type \in MessageTypes, payload \in Payloads :
          datagramReceived(m, type, payload)
    \/ \E m \in Datagrams, res \in {"value", "failure"} : InsertEnds(m, res)

SpecMonitor == InitLive /\ [][NextMonitor]_vars

(* ====================================================================== *)
(* process_action of the HWP PCU agent, call by call: the relays it       *)
(* switches for a command.  socs.agents.hwp_pcu.drivers.hwp_pcu is not    *)
(* among the sources: relay_off(i) and relay_on(i) are taken to switch    *)
(* relay i and no other.                                                  *)
(* ====================================================================== *)
\* (variant: relay 5 is missing from the list of on_1)
off_channel_short(c) ==
    CASE c = "off" -> <<0, 1, 2, 5, 6, 7>>
      [] c = "on_1" -> <<6, 7>>
      [] c = "on_2" -> <<>>
      [] c = "stop" -> <<0, 6, 7>>
      [] OTHER -> <<>>
\* off_channel as process_action sets it for action.command
off_channel(c) ==
    CASE c = "off" -> <<0, 1, 2, 5, 6, 7>>
      [] c = "on_1" -> <<5, 6, 7>>
      [] c = "on_2" -> <<>>
      [] c = "stop" -> <<0, 6, 7>>
      [] OTHER -> <<>>

\* on_channel as process_action sets it for action.command
on_channel(c) ==
    CASE c = "off" -> <<>>
      [] c = "on_1" -> <<0, 1, 2>>
      [] c = "on_2" -> <<0, 1, 2, 5, 6, 7>>
      [] c = "stop" -> <<1, 2, 5>>
      [] OTHER -> <<>>

\* for i in off_channel: PCU.relay_off(i); for i in on_channel: PCU.relay_on(i)
RelayCalls(c) ==
    [k \in 1..Len(off_channel(c)) |-> [op |-> "off", ch |-> off_channel(c)[k]]]
    \o [k \in 1..Len(on_channel(c)) |-> [op |-> "on", ch |-> on_channel(c)[k]]]

\* PCU.relay_off(i), PCU.relay_on(i)
relay_off(b, i) == [b EXCEPT ![i] = FALSE]
relay_on(b, i) == [b EXCEPT ![i] = TRUE]

\* the relays after the calls cs were made one after the other
RECURSIVE ApplyCalls(_, _)
ApplyCalls(b, cs) ==
    IF cs = <<>> THEN b
    ELSE ApplyCalls(IF Head(cs).op = "off" THEN relay_off(b, Head(cs).ch)
                    ELSE relay_on(b, Head(cs).ch),
                    Tail(cs))

\* any state the relays can be in when the agent connects to the PCU
InitRelays ==
    /\ SupRsyncInit({1}, {1}, {0}, {1})
    /\ PcuInit
    /\ MonitorInit
    /\ relays \in [Board -> BOOLEAN]
    /\ NoCall

\* process_action(action, PCU) with action.command = c, lines 29-53: all the
\* calls are made and it returns
ProcessCommand(c) ==
    /\ relays_before' = relays
    /\ command' = c
    /\ calls' = RelayCalls(c)
    /\ relays' = ApplyCalls(relays, RelayCalls(c))
    /\ returned' = TRUE
    /\ UNCHANGED <<suprsync, monitor, action_queue, num_actions, deferred,
                   fired, applied, enqueued_at, action, main_pc, main_status,
                   pass_done>>

\* process_action with action.command = c, when the call after the first n
\* raises: the calls behind it are not made
ProcessCommandRaises(c, n) ==
    /\ n < Len(RelayCalls(c))
    /\ relays_before' = relays
    /\ command' = c
    /\ calls' = SubSeq(RelayCalls(c), 1, n)
    /\ relays' = ApplyCalls(relays, SubSeq(RelayCalls(c), 1, n))
    /\ returned' = FALSE
    /\ UNCHANGED <<suprsync, monitor, action_queue, num_actions, deferred,
                   fired, applied, enqueued_at, action, main_pc, main_status,
                   pass_done>>

NextRelays ==
    \/ \E c \in Commands : ProcessCommand(c)
    \/ \E c \in Commands :
          \E n \in 0..(Len(RelayCalls(c)) - 1) : ProcessCommandRaises(c, n)

SpecRelays == InitRelays /\ [][NextRelays]_vars

(* ------------------------------ properties ---------------------------- *)
Handling(i) == pc[i] \in {"L94", "L99", "L100"} /\ file[i] # 0
\* run() of instance i selects (the step of line 88)
Selects(i) == pc[i] = "L88" /\ pc'[i] \in {"L94", "L100"}
\* _stop() of instance i returns to its caller
StopReturns(i) == spc[i] = "L104" /\ spc'[i] = "idle"

\* C1: the deletion step acts on a record only if, when it was selected, its
\* copied field was verified-true, it was not removed and its age exceeded the
\* configured retention window; so a removed record is a verified-copied one.
C1_DeleteOnlyVerifiedAndOld ==
    /\ [][\A i \in Engines :
            (pc[i] = "L94" /\ dirty'[i].removed /\ ~dirty[i].removed)
            => /\ before[i].copied = 1
               /\ ~before[i].removed
               /\ delete_after # None
               /\ before[i].age > delete_after]_vars
    /\ [](\A r \in Records : files[r].removed => files[r].copied = 1)

C1_Witness ==
    \E r \in Records : files[r].removed /\ delete_after = MaxDeleteAfter

\* C2: a store error while beginning the transaction or selecting the next
\* file never ends the run process: the loop is still alive afterwards.
C2_StoreErrorKeepsLoopAlive ==
    \A i \in Engines : pc[i] # "crashed"

\* C3: with a ceiling configured, a record is selected for a copy attempt only
\* while its failed_copy_attempts is below the ceiling, and the counter never
\* changes to a value above the ceiling.
C3_NoCopyBeyondCeiling ==
    [][/\ \A i \in Engines :
            (Selects(i) /\ file'[i] # 0 /\ max_copy_attempts # None
                /\ files[file'[i]].copied # 1)
            => files[file'[i]].failed_copy_attempts < max_copy_attempts
       /\ \A r \in Records :
            (max_copy_attempts # None
                /\ files'[r].failed_copy_attempts # files[r].failed_copy_attempts)
            => files'[r].failed_copy_attempts <= max_copy_attempts]_vars

C3_Witness ==
    /\ max_copy_attempts = MaxCeiling
    /\ files[1].present /\ files[1].copied # 1
    /\ files[1].failed_copy_attempts = max_copy_attempts
    /\ pc[1] = "L100" /\ file[1] = 0

\* C4: two instances never handle the same record at the same time, and an
\* instance copies a record successfully only if no instance has copied it.
C4_NoDoubleHandling ==
    /\ [](\A i, j \in Engines :
            (i # j /\ Handling(i) /\ Handling(j)) => file[i] # file[j])
    /\ [][\A i \in Engines :
            (pc[i] = "L94" /\ dirty'[i].copied = 1 /\ dirty[i].copied # 1)
            => /\ files[file[i]].copied # 1
               /\ \A j \in Engines \ {i} :
                    ~(file[j] = file[i] /\ dirty[j].copied = 1)]_vars

C4_Witness ==
    /\ Handling(1) /\ pc[1] = "L94"
    /\ pc[2] = "L87"
    /\ files[1].copied = 1 /\ file[1] = 2

\* C5: once a stop was requested for a started run, the loop eventually exits.
C5_StopEventuallyExits ==
    \A i \in Engines : (stop_seen[i] # "none") ~> (pc[i] \in Finished)

\* C6: a stop request leaves the iteration in progress alone: the stopper
\* changes nothing of it, the handling goes on to the end of the iteration,
\* which commits what handle_file did, and after that iteration the loop
\* makes no further selection.
C6_StopLetsIterationFinish ==
    /\ [][\A i \in Engines :
            /\ (spc[i] = "idle" /\ spc'[i] = "L104")
                => (pc'[i] = pc[i] /\ file'[i] = file[i]
                    /\ dirty'[i] = dirty[i] /\ txn' = txn)
            /\ (stop_seen[i] = "inflight" /\ Handling(i))
                => (pc'[i] \in {"L94", "L99", "L100", "L86"} /\ file'[i] \in {file[i], 0})
            /\ (stop_seen[i] = "inflight" /\ Handling(i) /\ pc'[i] = "L86")
                => (txn' # i /\ files'[file[i]] = dirty[i])]_vars
    /\ [](\A i \in Engines :
            stop_seen[i] = "completed" => pc[i] \in {"L86", "done", "crashed"})

C6_Witness ==
    /\ stop_seen[1] = "completed" /\ pc[1] = "done"
    /\ files[1].copied = 1

\* C7 (as claimed): _stop returns only after the iteration that was in flight
\* when it was called has completed.
C7_StopReturnsAfterIteration ==
    [][\A i \in Engines : StopReturns(i) => stop_seen[i] # "inflight"]_vars

\* C7 (amended): _stop returns without waiting and without touching the
\* iteration in flight; when it returns while that iteration is still in
\* progress, the running flag is already cleared.
C7_StopReturnsWithFlagCleared ==
    [][\A i \in Engines :
        StopReturns(i)
        => /\ pc'[i] = pc[i] /\ file'[i] = file[i] /\ txn' = txn
           /\ (stop_seen[i] = "inflight" /\ pc[i] \in IterStates) => ~running'[i]]_vars

C7_Witness ==
    /\ spc[1] = "idle" /\ stop_seen[1] = "inflight"
    /\ pc[1] = "L94" /\ status[1] = "stopping"

\* C8: after a TimeoutExpired the loop neither begins an iteration nor selects
\* a record before timeout_wait seconds have passed.
C8_CooldownBeforeNextIteration ==
    [][\A i \in Engines :
        (Selects(i) \/ (pc[i] = "L86" /\ pc'[i] = "L87"))
        => elapsed[i] >= timeout_wait]_vars

C8_Witness ==
    /\ timed_out[1] /\ pc[1] = "L86"
    /\ timeout_wait > SleepInterval

\* C9: an iteration whose copy timed out leaves the record in the store with
\* failed_copy_attempts exactly one higher than when it was selected, and not
\* verified-copied.
C9_TimeoutCountsOnce ==
    [][\A i \in Engines :
        (pc[i] = "L100" /\ pc'[i] = "L86" /\ timed_out[i])
        => /\ files[file[i]].failed_copy_attempts = before[i].failed_copy_attempts
           /\ files'[file[i]].failed_copy_attempts
                = before[i].failed_copy_attempts + 1
           /\ files'[file[i]].copied # 1]_vars

C9_Witness ==
    /\ timed_out[1] /\ pc[1] = "L86"
    /\ files[1].failed_copy_attempts = 1 /\ files[1].copied # 1

\* C10: the engine never sleeps (fixed sleep or cooldown) while it holds the
\* store transaction.
C10_NoSleepInsideTransaction ==
    \A i \in Engines : pc[i] \in {"L99", "L100"} => txn # i

\* the fields of a row that the engine changes differ
RowChanged(a, b) ==
    \/ a.copied # b.copied
    \/ a.failed_copy_attempts # b.failed_copy_attempts
    \/ a.removed # b.removed
\* the with block of instance i ends normally: its transaction commits
Commits(i) == pc[i] = "L100" /\ pc'[i] = "L86"
\* a row that awaits a copy under the configured ceiling
Awaiting(r) == r \in CopyCandidates(max_copy_attempts)

\* C11: without a retention window (delete_after not given) no selection
\* returns a verified-copied record for deletion, and no record's removed
\* field becomes true, in the store or inside a transaction.
C11_CopyOnlyWithoutWindow ==
    /\ [](delete_after = None
            => /\ \A r \in Records : ~files[r].removed
               /\ \A i \in Engines : ~dirty[i].removed)
    /\ [][\A i \in Engines :
            (delete_after = None /\ Selects(i) /\ file'[i] # 0)
            => files[file'[i]].copied # 1]_vars

C11_Witness ==
    /\ delete_after = None
    /\ files[1].present /\ files[1].copied = 1 /\ files[1].age = 1
    /\ pc[1] = "L100" /\ file[1] = 0 /\ txn = 1

\* C12: a row once inserted stays in the table; a row that awaits a copy
\* keeps awaiting it through every step (start, stop, return, store error,
\* restart) other than the commit of the iteration that handled it; and
\* whenever a row awaits a copy, a selection returns such a row.
C12_QueueSurvivesRestart ==
    [][/\ \A r \in Records : files[r].present => files'[r].present
       /\ \A r \in Records :
            (Awaiting(r) /\ ~(\E i \in Engines : Commits(i) /\ file[i] = r))
            => Awaiting(r)'
       /\ \A i \in Engines :
            (Selects(i) /\ CopyCandidates(max_copy_attempts) # {})
            => file'[i] \in CopyCandidates(max_copy_attempts)]_vars

\* a run that was started after a stop of the previous run (whose stopper has
\* not returned yet) has selected the row that failed once in the previous run
C12_Witness ==
    /\ spc[1] = "L104" /\ stop_seen[1] = "none"
    /\ pc[1] = "L94" /\ file[1] = 1
    /\ files[1].failed_copy_attempts = 1 /\ files[1].copied # 1

\* C15: handle_file gets the record that get_next_file returned in the same
\* iteration, with the transaction of that selection still open and the row
\* in the store still as selected; handle_file changes the row only inside
\* that transaction, and a row of the store changes only by the commit of the
\* transaction that selected it.
C15_ActInSelectingTransaction ==
    /\ [](\A i \in Engines :
            pc[i] = "L94"
            => /\ txn = i
               /\ file[i] # 0
               /\ ~RowChanged(files[file[i]], before[i])
               /\ ~RowChanged(dirty[i], before[i]))
    /\ [][/\ \A i \in Engines :
                (pc[i] = "L94" /\ RowChanged(dirty[i], dirty'[i]))
                => (txn = i /\ txn' = i)
          /\ \A r \in Records :
                (files[r].present /\ RowChanged(files[r], files'[r]))
                => \E i \in Engines :
                      /\ txn = i /\ file[i] = r /\ Commits(i)
                      /\ files'[r] = dirty[i]]_vars

C15_Witness ==
    /\ pc[1] = "L100" /\ file[1] = 2 /\ txn = 1
    /\ dirty[1].copied = 1 /\ files[2].copied = 0
    /\ files[1].copied = 1

\* C16: an instance has a record in hand only between its selection and the
\* end of that iteration, and takes a new record only at the selection, when
\* it has none in hand: one record at a time, one selection per iteration.
C16_OneRecordAtATime ==
    /\ [](\A i \in Engines :
            /\ pc[i] \notin {"L94", "L99", "L100"}
                => (file[i] = 0 /\ dirty[i] = NoRow)
            /\ pc[i] \in {"L94", "L99"} => file[i] # 0)
    /\ [][\A i \in Engines :
            (file'[i] # file[i] /\ file'[i] # 0)
            => (file[i] = 0 /\ pc[i] = "L88" /\ pc'[i] = "L94")]_vars

C16_Witness ==
    /\ pc[1] = "L94" /\ file[1] = 2
    /\ files[1].copied = 1 /\ files[1].removed

\* C14: every dict the monitor submits for insertion has copied = 0 and
\* failed_copy_attempts = 0, whatever the payload of the datagram carries.
C14_SubmittedAsUnattempted ==
    \A m \in Datagrams :
        datagrams[m].recv = "submitted"
        => /\ {"copied", "failed_copy_attempts"} \subseteq DOMAIN datagrams[m].d
           /\ datagrams[m].d["copied"] = 0
           /\ datagrams[m].d["failed_copy_attempts"] = 0

C14_Witness ==
    \E m \in Datagrams :
        /\ datagrams[m].recv = "submitted"
        /\ DOMAIN datagrams[m].payload = PayloadKeys
        /\ datagrams[m].payload["copied"] = 1
        /\ datagrams[m].payload["failed_copy_attempts"] = 1
        /\ datagrams[m].d["copied"] = 0

\* C17: only a datagram of type 'data_file' starts an insert; an insert that
\* has not ended has reported nothing, one that succeeded has run the success
\* callback once and the errback not at all, one that failed has run the
\* errback once and the success callback not at all.
C17_OneReportPerInsert ==
    \A m \in Datagrams :
        LET g == datagrams[m] IN
        /\ g.insert # "none" => (g.type = "data_file" /\ g.recv = "submitted")
        /\ g.insert \in {"none", "pending"} => (g.added = 0 /\ g.errors = 0)
        /\ g.insert = "value" => (g.added = 1 /\ g.errors = 0)
        /\ g.insert = "failure" => (g.added = 0 /\ g.errors = 1)

C17_Witness ==
    /\ datagrams[1].insert = "failure" /\ datagrams[1].errors = 1
    /\ datagrams[2].insert = "value" /\ datagrams[2].added = 1

\* C18: the deferred of an action is fired at most once and keeps its outcome
\* (result, cancelled or error) once it has one; the queue holds the actions
\* in the order they were enqueued, and what was taken from it was enqueued
\* before everything still in it.
C18_ResolvedOnceInOrder ==
    /\ [](/\ \A a \in Actions :
               /\ fired[a] <= 1
               /\ (fired[a] = 1) = (deferred[a] \in Resolved)
          /\ \A k \in 1..Len(action_queue) :
               /\ deferred[action_queue[k]] = "pending"
               /\ action_queue[k] # action
               /\ \A j \in 1..Len(action_queue) :
                    j < k => action_queue[j] < action_queue[k]
               /\ \A a \in Actions :
                    (deferred[a] \in Resolved \/ a = action)
                    => a < action_queue[k])
    /\ [][\A a \in Actions :
            deferred[a] \in Resolved => deferred'[a] = deferred[a]]_vars

\* main has been started again after it had processed action 1: it has
\* cancelled action 2 and finds action 3 in the queue
C18_Witness ==
    /\ main_pc = "L123"
    /\ deferred[1] = "result" /\ deferred[2] = "cancelled"
    /\ action_queue = <<3>>

\* C19 as stated: no relay is switched for an action that was enqueued before
\* main began its loop (line 128), the actions enqueued between the last
\* test of the start-up loop and line 128 included.
C19_NothingBeforeLoopApplied ==
    \A a \in Actions :
        enqueued_at[a] \in {"startup", "window"} => ~applied[a]

\* C19 (amended): an action that is in the queue when main starts, or is
\* enqueued before the start-up loop has found the queue empty, is never
\* applied to the hardware, and is cancelled by the time that loop is left.
C19_StartupQueueCancelled ==
    \A a \in Actions :
        enqueued_at[a] = "startup"
        => /\ ~applied[a]
           /\ main_pc \in MainLoop \cup {"L127"} => deferred[a] = "cancelled"

C19_Witness ==
    /\ main_pc = "L97" /\ action = 3
    /\ enqueued_at[1] = "startup" /\ deferred[1] = "cancelled"
    /\ enqueued_at[2] = "startup" /\ deferred[2] = "cancelled"

\* C20: when process_action raises, only the deferred of that action changes
\* (it fails), nothing is taken from or put back on the queue, main goes on
\* with the test of line 95, and _process_actions returns only when the queue
\* is empty: the actions behind the failed one are taken in the same pass.
C20_ActionErrorIsContained ==
    [][/\ (main_pc = "L97" /\ main_pc' # "L97" /\ deferred'[action] = "error")
          => /\ main_pc' = "L95"
             /\ main_status' = main_status
             /\ action_queue' = action_queue
             /\ \A b \in Actions \ {action} : deferred'[b] = deferred[b]
       /\ (main_pc = "L95" /\ main_pc' # "L95")
          => IF action_queue = <<>>
             THEN main_pc' = "L135"
             ELSE main_pc' = "L97" /\ action' = Head(action_queue)]_vars

\* action 1 failed in this call of _process_actions, and action 2, which was
\* behind it, is being processed
C20_Witness ==
    /\ main_pc = "L97" /\ action = 2
    /\ 1 \in pass_done /\ deferred[1] = "error"

\* the relays the four commands address
DrivenRelays == {0, 1, 2, 5, 6, 7}
\* the relays process_action(c) called relay_off / relay_on for
SwitchedOff == {calls[k].ch : k \in {j \in 1..Len(calls) : calls[j].op = "off"}}
SwitchedOn == {calls[k].ch : k \in {j \in 1..Len(calls) : calls[j].op = "on"}}

\* C21: when process_action has returned for one of the four commands, the
\* relays it switched off and those it switched on are disjoint and together
\* are {0,1,2,5,6,7}, no switch-off came after a switch-on, and the state of
\* these relays is the one the command gives from any other state before it
\* (here: from all relays off); the other relays are as they were.
C21_RelaysSetByCommand ==
    (returned /\ command \in Commands)
    => /\ SwitchedOff \cap SwitchedOn = {}
       /\ SwitchedOff \cup SwitchedOn = DrivenRelays
       /\ \A j, k \in 1..Len(calls) :
            (j < k /\ calls[j].op = "on") => calls[k].op = "on"
       /\ \A ch \in DrivenRelays :
            /\ relays[ch] = (ch \in SwitchedOn)
            /\ relays[ch] =
                 ApplyCalls([x \in Board |-> FALSE], RelayCalls(command))[ch]
       /\ \A ch \in Board \ DrivenRelays : relays[ch] = relays_before[ch]

\* 'stop' has returned, and it changed relays that were on and relays that
\* were off before
C21_Witness ==
    /\ returned /\ command = "stop"
    /\ relays_before[0] /\ ~relays_before[1] /\ relays_before[3]
    /\ ~relays[0] /\ relays[1] /\ relays[3]

====
